---- MODULE Spec2Model ----
(***************************************************************************)
(* Model of IPython/lib/inputhookqt4.py: create_inputhook_qt4 and the two  *)
(* closures it builds, inputhook_qt4 (the PyOS_InputHook callback) and     *)
(* preprompthook_qt4 (the pre_prompt_hook).                                *)
(*                                                                         *)
(* inputhook_qt4 is modelled statement by statement: pc names the source   *)
(* line about to execute ("L88" = app.processEvents(...) is running).      *)
(* A KeyboardInterrupt is delivered asynchronously at any of those points  *)
(* while SIGINT is enabled (allow_CTRL_C was the last interrupt-control    *)
(* call).  The host (readline, the prompt loop, the caller of              *)
(* create_inputhook_qt4) and Qt are the environment.                       *)
(*                                                                         *)
(* Auto2to3SourceFileLoader.get_data of ipython3.py is modelled beside it, *)
(* over a source file, its cache file and the file clock (LoaderSpec,      *)
(* RaceSpec); the two halves share no state.                               *)
(***************************************************************************)
EXTENDS Integers, FiniteSets

\* Application objects that may be constructed in one run.
MaxApps == 2
\* inputhook_qt4 closures that may be constructed in one run.
MaxHooks == 2
\* Cap of the per-invocation count of wait windows (a history counter).
MaxWindows == 2
\* Ticks of the file clock in one run.
MaxClock == 3
\* Versions the source file goes through in one run.
MaxVersions == 3

None == 0

VARIABLES
    platform,          \* sys.platform: "win32" or "other"
    qt_instance,       \* QtCore.QCoreApplication.instance(): None or an app
    napps,             \* application objects constructed so far
    ip_inputhook_qt4,  \* ip._inputhook_qt4: None (no attribute) or a hook
    nhooks,            \* inputhook_qt4 closures constructed so far
    pre_prompt_hook,   \* preprompthook_qt4 is ip's 'pre_prompt_hook'
    got_kbdint,        \* got_kbdint[0]
    mgr_inputhook,     \* the hook the manager has registered: None or a hook
    sigint,            \* "allow" or "ignore": the last interrupt-control call
    stdin_ready,       \* stdin_ready()
    pc,                \* "idle", or the line inputhook_qt4 is at
    exc,               \* an exception is propagating through the finally block
    connected,         \* this invocation's timer/notifier is connected to app.quit
    timer_active,      \* this invocation's timer is started
    inv,               \* what this invocation of inputhook_qt4 has done so far
    ret,               \* the last and the first result of create_inputhook_qt4
    hist,              \* history: interrupt caught / unregistered on error
    event,             \* the step that led to this state
    clock,             \* the file clock: the mtime a write gets
    source,            \* the file at original_path: mtime and content version
    cache,             \* the file at _2to3_cache_path(original_path)
    gd,                \* the get_data(original_path) call in progress or last
    levent             \* the loader step that led to this state

vars == <<platform, qt_instance, napps, ip_inputhook_qt4, nhooks,
          pre_prompt_hook, got_kbdint, mgr_inputhook, sigint, stdin_ready,
          pc, exc, connected, timer_active, inv, ret, hist, event,
          clock, source, cache, gd, levent>>

\* The state of the input hook.
hookvars == <<platform, qt_instance, napps, ip_inputhook_qt4, nhooks,
              pre_prompt_hook, got_kbdint, mgr_inputhook, sigint,
              stdin_ready, pc, exc, connected, timer_active, inv, ret, hist,
              event>>

\* The state of the 2to3 loader.
loader == <<clock, source, cache, gd, levent>>

\* Left alone by every step inside inputhook_qt4.
session == <<platform, qt_instance, napps, ip_inputhook_qt4, nhooks,
             pre_prompt_hook, ret>>

\* Left alone by every step outside inputhook_qt4.
frame == <<pc, exc, connected, timer_active, inv>>

\* The record of a fresh invocation.
NewInv(flag) ==
    [kbdint_at |-> "none",   \* where the first KeyboardInterrupt was delivered
     gui_exc   |-> FALSE,    \* a GUI call raised a non-interrupt exception
     flag0     |-> flag,     \* got_kbdint[0] on entry
     notice    |-> FALSE,    \* line 107 printed
     diag      |-> FALSE,    \* lines 112-113 printed
     cleared   |-> FALSE,    \* mgr.clear_inputhook() called
     windows   |-> 0,        \* wait windows running or begun with input ready
     bursts    |-> 0,        \* processEvents calls
     checked   |-> "none",   \* line 89 found input "ready" or "notready"
     watch     |-> FALSE,    \* a timer or notifier was created
     entered   |-> FALSE,    \* app.exec_() was entered
     gui_quit  |-> FALSE,    \* the GUI's own quit ended app.exec_()
     status    |-> -1]       \* the value returned (-1: none)

\* _load_cached_2to3 returns None.
NoData == <<>>

\* The loader before its first call: the source was written earlier, there
\* is no cache file.
LoaderInit ==
    /\ clock = 1
    /\ source = [mtime |-> 0, version |-> 1]
    /\ cache = [exists |-> FALSE, mtime |-> 0, data |-> NoData]
    /\ gd = [pc          |-> "idle",  \* "idle", or the line get_data is at
             output      |-> NoData,  \* the refactored bytes held by the call
             seen_cache  |-> FALSE,   \* os.stat(cache) succeeded
             cmt         |-> 0,       \* cache_stats.st_mtime
             smt         |-> 0,       \* source_stats.st_mtime
             hit         |-> FALSE,   \* _load_cached_2to3 returned data
             refactored  |-> FALSE,   \* _refactor_2to3 ran in this call
             wrote       |-> FALSE,   \* set_data ran in this call
             data        |-> NoData,  \* what the call returned
             follows     |-> FALSE,   \* the call before missed, wrote the
                                      \* cache, and the source is as it was
             prev_wrote  |-> FALSE,   \* the last call missed and wrote
             prev_data   |-> NoData,  \* what the last call returned
             unmodified  |-> FALSE]   \* source not modified since that call
    /\ levent = "init"

NoRet == [app |-> None, hook |-> None, handle |-> None,
          first_app |-> None, first_hook |-> None, created |-> 0]

Init ==
    /\ platform \in {"win32", "other"}
    /\ qt_instance = None
    /\ napps = 0
    /\ ip_inputhook_qt4 = None
    /\ nhooks = 0
    /\ pre_prompt_hook = FALSE
    /\ got_kbdint = FALSE
    /\ mgr_inputhook = None
    /\ sigint = "allow"
    /\ stdin_ready = FALSE
    /\ pc = "idle"
    /\ exc = FALSE
    /\ connected = FALSE
    /\ timer_active = FALSE
    /\ inv = NewInv(FALSE)
    /\ ret = NoRet
    /\ hist = [caught |-> FALSE, unreg_error |-> FALSE, activated |-> FALSE]
    /\ event = "init"
    /\ LoaderInit

----------------------------------------------------------------------------
(* create_inputhook_qt4(mgr, app=None)                                     *)

\* Lines 56-59: the given app, else the existing instance, else a new one.
ResolveApp(handle, instance, n) ==
    IF handle # None THEN handle
    ELSE IF instance # None THEN instance
    ELSE n + 1

\* A create_inputhook_qt4 that does not probe for an existing instance.
ConstructsUnprobed(handle, instance) == handle = None

\* Line 59 runs: no handle was given and no instance exists.
ConstructsApp(handle, instance) == handle = None /\ instance = None

\* A create_inputhook_qt4 that also registers the hook with the manager.
RegisteredByInstall(current, hook) == hook

\* Lines 129-132: the hook is stored and returned; mgr.set_inputhook is not
\* called, the manager's registered hook stays what it was.
RegisteredAfterInstall(current, hook) == current

\* A create_inputhook_qt4 that never finds the stored hook.
HasHookNever(ipHook) == FALSE

\* Line 63: hasattr(ip, '_inputhook_qt4').
HasHook(ipHook) == ipHook # None

create_inputhook_qt4(handle) ==
    LET app  == ResolveApp(handle, qt_instance, napps)
        made == ConstructsApp(handle, qt_instance)
        hook == IF HasHook(ip_inputhook_qt4) THEN ip_inputhook_qt4
                ELSE nhooks + 1
    IN  /\ pc = "idle"
        /\ made => napps < MaxApps
        /\ ~HasHook(ip_inputhook_qt4) => nhooks < MaxHooks
        /\ qt_instance' = IF made THEN app ELSE qt_instance
        /\ napps' = IF made THEN napps + 1 ELSE napps
        /\ IF HasHook(ip_inputhook_qt4)
           THEN \* line 64: return app, ip._inputhook_qt4
                UNCHANGED <<ip_inputhook_qt4, nhooks, pre_prompt_hook,
                            got_kbdint>>
           ELSE \* lines 69, 129-130
                /\ got_kbdint' = FALSE
                /\ nhooks' = nhooks + 1
                /\ ip_inputhook_qt4' = hook
                /\ pre_prompt_hook' = TRUE
        /\ ret' = [app |-> app, hook |-> hook, handle |-> handle,
                   first_app  |-> IF ret.first_hook = None THEN app
                                  ELSE ret.first_app,
                   first_hook |-> IF ret.first_hook = None THEN hook
                                  ELSE ret.first_hook,
                   created |-> IF made THEN 1 ELSE 0]
        /\ mgr_inputhook' = RegisteredAfterInstall(mgr_inputhook, hook)
        /\ event' = "install"
        /\ UNCHANGED <<platform, sigint, stdin_ready, hist>>
        /\ UNCHANGED <<frame, loader>>

Install == \E handle \in 0..napps : create_inputhook_qt4(handle)

----------------------------------------------------------------------------
(* The environment: Qt, the terminal, the caller and the manager.          *)

\* User code constructs the application itself.
EnvCreateApp ==
    /\ pc = "idle"
    /\ qt_instance = None
    /\ napps < MaxApps
    /\ qt_instance' = napps + 1
    /\ napps' = napps + 1
    /\ event' = "env_create_app"
    /\ UNCHANGED <<platform, ip_inputhook_qt4, nhooks, pre_prompt_hook,
                   got_kbdint, mgr_inputhook, sigint, stdin_ready, ret, hist>>
    /\ UNCHANGED <<frame, loader>>

\* The application object is deleted: instance() is None again (line 86).
EnvDestroyApp ==
    /\ pc = "idle"
    /\ qt_instance # None
    /\ qt_instance' = None
    /\ event' = "env_destroy_app"
    /\ UNCHANGED <<platform, napps, ip_inputhook_qt4, nhooks, pre_prompt_hook,
                   got_kbdint, mgr_inputhook, sigint, stdin_ready, ret, hist>>
    /\ UNCHANGED <<frame, loader>>

\* The caller registers the hook create_inputhook_qt4 returned.
SetInputhook ==
    /\ pc = "idle"
    /\ ip_inputhook_qt4 # None
    /\ mgr_inputhook' = ip_inputhook_qt4
    /\ hist' = [hist EXCEPT !.unreg_error = FALSE, !.activated = TRUE]
    /\ event' = "set_inputhook"
    /\ UNCHANGED <<platform, qt_instance, napps, ip_inputhook_qt4, nhooks,
                   pre_prompt_hook, got_kbdint, sigint, stdin_ready, ret>>
    /\ UNCHANGED <<frame, loader>>

\* The caller registers the returned hook once, when it activates the GUI.
Activate ==
    /\ ~hist.activated
    /\ SetInputhook

\* The caller clears the registered hook.
ClearInputhook ==
    /\ pc = "idle"
    /\ mgr_inputhook # None
    /\ mgr_inputhook' = None
    /\ event' = "clear_inputhook"
    /\ UNCHANGED <<platform, qt_instance, napps, ip_inputhook_qt4, nhooks,
                   pre_prompt_hook, got_kbdint, sigint, stdin_ready, ret, hist>>
    /\ UNCHANGED <<frame, loader>>

\* A line of terminal input arrives (also while the hook is running).
StdinBecomesReady ==
    /\ ~stdin_ready
    /\ stdin_ready' = TRUE
    /\ inv' = IF pc \in {"L96", "L102"}
              THEN [inv EXCEPT !.windows = 1]
              ELSE inv
    /\ event' = IF pc = "idle" THEN "stdin" ELSE event
    /\ UNCHANGED <<platform, qt_instance, napps, ip_inputhook_qt4, nhooks,
                   pre_prompt_hook, got_kbdint, mgr_inputhook, sigint, ret,
                   hist, pc, exc, connected, timer_active>>
    /\ UNCHANGED loader

\* The host reads the line.
HostReadLine ==
    /\ pc = "idle"
    /\ stdin_ready
    /\ stdin_ready' = FALSE
    /\ event' = "readline"
    /\ UNCHANGED <<platform, qt_instance, napps, ip_inputhook_qt4, nhooks,
                   pre_prompt_hook, got_kbdint, mgr_inputhook, sigint, ret,
                   hist>>
    /\ UNCHANGED <<frame, loader>>

----------------------------------------------------------------------------
(* IPython.lib.inputhook (line 23) and the manager's two operations.       *)

allow_CTRL_C == "allow"
ignore_CTRL_C == "ignore"

\* mgr.set_inputhook(inputhook_qt4): the hook becomes the registered one.
set_inputhook(hook) == hook

\* mgr.clear_inputhook(): no hook is registered.
clear_inputhook == None

----------------------------------------------------------------------------
(* inputhook_qt4()                                                         *)

\* The statements of the try body (lines 84-103).
Body == {"L84", "L85", "L88", "L89", "L92", "L94", "L95", "L96", "L97",
         "L98", "L100", "L102", "L103"}

\* Where the event loop or the event burst is running.
GuiCalls == {"L88", "L96", "L102"}

\* A step of inputhook_qt4 that moves to line `next` and touches only pc.
Goto(next) ==
    /\ pc' = next
    /\ event' = "step"
    /\ UNCHANGED <<session, loader>>

\* The frame is left: by `return 0` or by an exception.
Leave(how) ==
    /\ pc' = "idle"
    /\ exc' = FALSE
    /\ event' = how
    /\ UNCHANGED <<session, loader>>

\* The host calls the registered hook; it may have suppressed SIGINT.
HookEnter ==
    /\ pc = "idle"
    /\ mgr_inputhook # None
    /\ \E s \in {sigint, ignore_CTRL_C} : sigint' = s
    /\ pc' = "L84"
    /\ exc' = FALSE
    /\ connected' = FALSE
    /\ timer_active' = FALSE
    /\ inv' = NewInv(got_kbdint)
    /\ event' = "enter"
    /\ UNCHANGED <<session, loader>>
    /\ UNCHANGED <<got_kbdint, mgr_inputhook, stdin_ready, hist>>

\* Line 84: allow_CTRL_C()
L84 ==
    /\ pc = "L84"
    /\ sigint' = allow_CTRL_C
    /\ Goto("L85")
    /\ UNCHANGED <<got_kbdint, mgr_inputhook, stdin_ready, hist, exc,
                   connected, timer_active, inv>>

\* A callback that does not test the application it found.
L85_NoTest ==
    /\ pc = "L85"
    /\ Goto("L88")
    /\ UNCHANGED <<got_kbdint, mgr_inputhook, sigint, stdin_ready, hist, exc,
                   connected, timer_active, inv>>

\* Lines 85-87: app = instance(); if not app: return 0 (through finally)
L85 ==
    /\ pc = "L85"
    /\ IF qt_instance = None THEN Goto("L116") ELSE Goto("L88")
    /\ UNCHANGED <<got_kbdint, mgr_inputhook, sigint, stdin_ready, hist, exc,
                   connected, timer_active, inv>>

\* Line 88: app.processEvents(AllEvents, 300) returns
L88 ==
    /\ pc = "L88"
    /\ inv' = [inv EXCEPT !.bursts = 1]
    /\ Goto("L89")
    /\ UNCHANGED <<got_kbdint, mgr_inputhook, sigint, stdin_ready, hist, exc,
                   connected, timer_active>>

\* Lines 89, 91: if not stdin_ready(): if sys.platform == 'win32'
L89 ==
    /\ pc = "L89"
    /\ IF stdin_ready THEN Goto("L116")
       ELSE IF platform = "win32" THEN Goto("L92")
       ELSE Goto("L100")
    /\ inv' = [inv EXCEPT !.checked = IF stdin_ready THEN "ready"
                                      ELSE "notready"]
    /\ UNCHANGED <<got_kbdint, mgr_inputhook, sigint, stdin_ready, hist, exc,
                   connected, timer_active>>

\* Lines 92-93: timer = QTimer(); timer.timeout.connect(app.quit)
L92 ==
    /\ pc = "L92"
    /\ connected' = TRUE
    /\ inv' = [inv EXCEPT !.watch = TRUE]
    /\ Goto("L94")
    /\ UNCHANGED <<got_kbdint, mgr_inputhook, sigint, stdin_ready, hist, exc,
                   timer_active>>

\* A polling loop that never looks at the terminal.
WaitAlways(ready) == TRUE

\* A polling loop that runs no quantum at all.
WaitNever(ready) == FALSE

\* Line 94: while not stdin_ready()
WaitMore(ready) == ~ready

L94 ==
    /\ pc = "L94"
    /\ IF WaitMore(stdin_ready) THEN Goto("L95") ELSE Goto("L98")
    /\ UNCHANGED <<got_kbdint, mgr_inputhook, sigint, stdin_ready, hist, exc,
                   connected, timer_active, inv>>

\* A wait window begins: it counts when input is already ready.
BeginWindow(rec) ==
    IF stdin_ready /\ rec.windows < MaxWindows
    THEN [rec EXCEPT !.windows = rec.windows + 1]
    ELSE rec

\* Lines 95-96: timer.start(50); app.exec_() is entered
L95 ==
    /\ pc = "L95"
    /\ timer_active' = TRUE
    /\ inv' = [BeginWindow(inv) EXCEPT !.entered = TRUE]
    /\ Goto("L96")
    /\ UNCHANGED <<got_kbdint, mgr_inputhook, sigint, stdin_ready, hist, exc,
                   connected>>

\* Line 96: the 50 ms timer fires, app.quit ends app.exec_()
TimerTimeout ==
    /\ pc = "L96"
    /\ timer_active /\ connected
    /\ Goto("L97")
    /\ UNCHANGED <<got_kbdint, mgr_inputhook, sigint, stdin_ready, hist, exc,
                   connected, timer_active, inv>>

\* Lines 96, 102: the GUI itself quits the application, app.exec_() returns
GuiQuit ==
    /\ pc \in {"L96", "L102"}
    /\ IF pc = "L96" THEN Goto("L97") ELSE Goto("L103")
    /\ inv' = [inv EXCEPT !.gui_quit = TRUE]
    /\ UNCHANGED <<got_kbdint, mgr_inputhook, sigint, stdin_ready, hist, exc,
                   connected, timer_active>>

\* Line 97: timer.stop()
L97 ==
    /\ pc = "L97"
    /\ timer_active' = FALSE
    /\ Goto("L94")
    /\ UNCHANGED <<got_kbdint, mgr_inputhook, sigint, stdin_ready, hist, exc,
                   connected, inv>>

\* Line 98: timer.timeout.disconnect(app.quit)
L98 ==
    /\ pc = "L98"
    /\ connected' = FALSE
    /\ Goto("L116")
    /\ UNCHANGED <<got_kbdint, mgr_inputhook, sigint, stdin_ready, hist, exc,
                   timer_active, inv>>

\* Lines 100-102: notifier = QSocketNotifier(0, Read); connect; exec_ entered
L100 ==
    /\ pc = "L100"
    /\ connected' = TRUE
    /\ inv' = [BeginWindow(inv) EXCEPT !.watch = TRUE, !.entered = TRUE]
    /\ Goto("L102")
    /\ UNCHANGED <<got_kbdint, mgr_inputhook, sigint, stdin_ready, hist, exc,
                   timer_active>>

\* Line 102: fd 0 is readable, the notifier's app.quit ends app.exec_()
NotifierActivated ==
    /\ pc = "L102"
    /\ stdin_ready /\ connected
    /\ Goto("L103")
    /\ UNCHANGED <<got_kbdint, mgr_inputhook, sigint, stdin_ready, hist, exc,
                   connected, timer_active, inv>>

\* Line 103: notifier.activated[int].disconnect(app.quit)
L103 ==
    /\ pc = "L103"
    /\ connected' = FALSE
    /\ Goto("L116")
    /\ UNCHANGED <<got_kbdint, mgr_inputhook, sigint, stdin_ready, hist, exc,
                   timer_active, inv>>

\* Lines 88, 96, 102: the GUI call raises an exception; line 109 catches it
GuiException ==
    /\ pc \in GuiCalls
    /\ inv' = [inv EXCEPT !.gui_exc = TRUE]
    /\ Goto("L110")
    /\ UNCHANGED <<got_kbdint, mgr_inputhook, sigint, stdin_ready, hist, exc,
                   connected, timer_active>>

\* SIGINT arrives while enabled: KeyboardInterrupt is raised where the code is.
\*   in the try body: line 104 catches it;
\*   in an except clause, before ignore_CTRL_C(): it propagates through finally;
\*   in the finally block or at `return 0`: it leaves the callback.
KeyboardInterrupt ==
    /\ pc # "idle"
    /\ sigint = allow_CTRL_C
    /\ inv' = IF inv.kbdint_at = "none" THEN [inv EXCEPT !.kbdint_at = pc]
              ELSE inv
    /\ \/ /\ pc \in Body
          /\ Goto("L105")
          /\ hist' = [hist EXCEPT !.caught = TRUE]
          /\ exc' = exc
       \/ /\ pc \in {"L105", "L110"}
          /\ Goto("L116")
          /\ exc' = TRUE
          /\ hist' = hist
       \/ /\ pc \in {"L116", "L117"}
          /\ Leave("raise")
          /\ hist' = hist
    /\ UNCHANGED <<got_kbdint, mgr_inputhook, sigint, stdin_ready, connected,
                   timer_active>>

\* Line 105: ignore_CTRL_C()
L105 ==
    /\ pc = "L105"
    /\ sigint' = ignore_CTRL_C
    /\ Goto("L106")
    /\ UNCHANGED <<got_kbdint, mgr_inputhook, stdin_ready, hist, exc,
                   connected, timer_active, inv>>

\* Line 106: got_kbdint[0] = True
L106 ==
    /\ pc = "L106"
    /\ got_kbdint' = TRUE
    /\ Goto("L107")
    /\ UNCHANGED <<mgr_inputhook, sigint, stdin_ready, hist, exc, connected,
                   timer_active, inv>>

\* Line 107: the notice "KeyboardInterrupt - Ctrl-C again for new prompt"
L107 ==
    /\ pc = "L107"
    /\ inv' = [inv EXCEPT !.notice = TRUE]
    /\ Goto("L108")
    /\ UNCHANGED <<got_kbdint, mgr_inputhook, sigint, stdin_ready, hist, exc,
                   connected, timer_active>>

\* A KeyboardInterrupt handler that leaves the hook registered.
L108_NoClear ==
    /\ pc = "L108"
    /\ Goto("L116")
    /\ UNCHANGED <<got_kbdint, mgr_inputhook, sigint, stdin_ready, hist, exc,
                   connected, timer_active, inv>>

\* Line 108: mgr.clear_inputhook()
L108 ==
    /\ pc = "L108"
    /\ mgr_inputhook' = clear_inputhook
    /\ inv' = [inv EXCEPT !.cleared = TRUE]
    /\ Goto("L116")
    /\ UNCHANGED <<got_kbdint, sigint, stdin_ready, hist, exc, connected,
                   timer_active>>

\* Line 110: ignore_CTRL_C()
L110 ==
    /\ pc = "L110"
    /\ sigint' = ignore_CTRL_C
    /\ Goto("L112")
    /\ UNCHANGED <<got_kbdint, mgr_inputhook, stdin_ready, hist, exc,
                   connected, timer_active, inv>>

\* Lines 111-113: print_exc(); "Got exception from inputhook_qt4, unregistering."
L112 ==
    /\ pc = "L112"
    /\ inv' = [inv EXCEPT !.diag = TRUE]
    /\ Goto("L114")
    /\ UNCHANGED <<got_kbdint, mgr_inputhook, sigint, stdin_ready, hist, exc,
                   connected, timer_active>>

\* Line 114: mgr.clear_inputhook()
L114 ==
    /\ pc = "L114"
    /\ mgr_inputhook' = clear_inputhook
    /\ inv' = [inv EXCEPT !.cleared = TRUE]
    /\ hist' = [hist EXCEPT !.unreg_error = TRUE]
    /\ Goto("L116")
    /\ UNCHANGED <<got_kbdint, sigint, stdin_ready, exc, connected,
                   timer_active>>

\* A finally block that leaves the interrupt signal as it found it.
FinallyNothing(s) == s

\* Lines 115-116: finally: allow_CTRL_C()
Finally(s) == allow_CTRL_C

\* Line 116, then the pending exception, if any, leaves the callback
L116 ==
    /\ pc = "L116"
    /\ sigint' = Finally(sigint)
    /\ IF exc THEN Leave("raise")
       ELSE Goto("L117") /\ exc' = exc
    /\ UNCHANGED <<got_kbdint, mgr_inputhook, stdin_ready, hist, connected,
                   timer_active, inv>>

\* Line 117 (and line 87): return 0
L117 ==
    /\ pc = "L117"
    /\ inv' = [inv EXCEPT !.status = 0]
    /\ Leave("return")
    /\ UNCHANGED <<got_kbdint, mgr_inputhook, sigint, stdin_ready, hist,
                   connected, timer_active>>

inputhook_qt4 ==
    \/ L84 \/ L85 \/ L88 \/ L89 \/ L92 \/ L94 \/ L95 \/ L97 \/ L98
    \/ L100 \/ L103 \/ L105 \/ L106 \/ L107 \/ L108 \/ L110 \/ L112
    \/ L114 \/ L116 \/ L117

----------------------------------------------------------------------------
(* preprompthook_qt4(ishell)                                               *)

\* A restoration that re-registers whatever the flag says.
RestoreAlways(flag, hook, current) == set_inputhook(hook)

\* Lines 125-126: if got_kbdint[0]: mgr.set_inputhook(inputhook_qt4)
Restore(flag, hook, current) ==
    IF flag THEN set_inputhook(hook) ELSE current

\* A restoration that leaves the flag as it is.
FlagKept(flag) == flag

\* Line 127: got_kbdint[0] = False
FlagCleared(flag) == FALSE

preprompthook_qt4 ==
    /\ pc = "idle"
    /\ pre_prompt_hook
    /\ mgr_inputhook' = Restore(got_kbdint, ip_inputhook_qt4, mgr_inputhook)
    /\ got_kbdint' = FlagCleared(got_kbdint)
    /\ hist' = [hist EXCEPT !.caught = FALSE]
    /\ event' = IF got_kbdint THEN "preprompt_restore" ELSE "preprompt"
    /\ UNCHANGED <<platform, qt_instance, napps, ip_inputhook_qt4, nhooks,
                   pre_prompt_hook, sigint, stdin_ready, ret>>
    /\ UNCHANGED <<frame, loader>>

----------------------------------------------------------------------------

Next ==
    \/ Install
    \/ EnvCreateApp
    \/ EnvDestroyApp
    \/ SetInputhook
    \/ ClearInputhook
    \/ StdinBecomesReady
    \/ HostReadLine
    \/ HookEnter
    \/ inputhook_qt4
    \/ TimerTimeout
    \/ NotifierActivated
    \/ GuiQuit
    \/ GuiException
    \/ KeyboardInterrupt
    \/ preprompthook_qt4

Spec == Init /\ [][Next]_vars

\* The 50 ms timer fires and the socket notifier is activated when they can,
\* and the interpreter keeps executing the callback's statements.
FairSpec ==
    Spec /\ WF_vars(inputhook_qt4 \/ TimerTimeout \/ NotifierActivated)

\* The session as the host drives it once the GUI is activated: the hook is
\* registered by the caller once, and after that only create_inputhook_qt4,
\* the two callbacks and the environment of the callback run.
HostNext ==
    \/ Install
    \/ EnvCreateApp
    \/ EnvDestroyApp
    \/ Activate
    \/ StdinBecomesReady
    \/ HostReadLine
    \/ HookEnter
    \/ inputhook_qt4
    \/ TimerTimeout
    \/ NotifierActivated
    \/ GuiQuit
    \/ GuiException
    \/ KeyboardInterrupt
    \/ preprompthook_qt4

HostSpec == Init /\ [][HostNext]_vars

----------------------------------------------------------------------------
(* ipython3.py: Auto2to3SourceFileLoader                                   *)

\* Lines 125-129: the 2to3 output for the source content read.
refactor_2to3(version) == <<"2to3", version>>

\* Line 158: bytearray(output, encoding), the bytes set_data writes and
\* super().get_data(cache) reads back.
Encoded(output) == <<"bytes", output>>

\* A staleness test that accepts a cache as old as the source.
StaleIfOlder(cache_mtime, source_mtime) == cache_mtime < source_mtime

\* A staleness test that never accepts the cache.
StaleAlways(cache_mtime, source_mtime) == TRUE

\* Line 143: cache_stats.st_mtime <= source_stats.st_mtime
Stale(cache_mtime, source_mtime) == cache_mtime <= source_mtime

\* Lines 131-148: None if the cache is missing or stale, else its bytes.
load_cached_2to3(src, cch) ==
    IF ~cch.exists THEN NoData
    ELSE IF Stale(cch.mtime, src.mtime) THEN NoData
    ELSE cch.data

\* Lines 153-156, and line 160 on a hit: get_data(original_path) is called
\* and looks at the cache.
get_data_load ==
    /\ gd.pc = "idle"
    /\ LET data == load_cached_2to3(source, cache)
           hit  == data # NoData
       IN  /\ gd' = [gd EXCEPT
                       !.pc = IF hit THEN "idle" ELSE "L157",
                       !.output = NoData,
                       !.seen_cache = cache.exists,
                       !.cmt = cache.mtime,
                       !.smt = source.mtime,
                       !.hit = hit,
                       !.refactored = FALSE,
                       !.wrote = FALSE,
                       !.data = data,
                       !.follows = gd.prev_wrote /\ gd.unmodified,
                       !.prev_wrote = IF hit THEN FALSE ELSE gd.prev_wrote,
                       !.prev_data = IF hit THEN data ELSE gd.prev_data,
                       !.unmodified = IF hit THEN TRUE ELSE gd.unmodified]
           /\ levent' = IF hit THEN "hit" ELSE "load_miss"
    /\ UNCHANGED <<clock, source, cache>>
    /\ UNCHANGED hookvars

\* Lines 157-158: output, encoding = self._refactor_2to3(path); data = bytes
get_data_refactor ==
    /\ gd.pc = "L157"
    /\ gd' = [gd EXCEPT !.pc = "L159",
                        !.output = Encoded(refactor_2to3(source.version)),
                        !.refactored = TRUE]
    /\ levent' = "refactor"
    /\ UNCHANGED <<clock, source, cache>>
    /\ UNCHANGED hookvars

\* Lines 159-160: self.set_data(cache, data); return data
get_data_set_data ==
    /\ gd.pc = "L159"
    /\ cache' = [exists |-> TRUE, mtime |-> clock, data |-> gd.output]
    /\ gd' = [gd EXCEPT !.pc = "idle",
                        !.wrote = TRUE,
                        !.data = gd.output,
                        !.prev_wrote = TRUE,
                        !.prev_data = gd.output,
                        !.unmodified = TRUE]
    /\ levent' = "miss"
    /\ UNCHANGED <<clock, source>>
    /\ UNCHANGED hookvars

\* Lines 162-163: get_data of another path (the cache file) reads it as is.
get_data_other ==
    /\ gd.pc = "idle"
    /\ cache.exists
    /\ gd' = [gd EXCEPT !.data = cache.data]
    /\ levent' = "raw"
    /\ UNCHANGED <<clock, source, cache>>
    /\ UNCHANGED hookvars

\* The file clock advances.
Tick ==
    /\ clock < MaxClock
    /\ clock' = clock + 1
    /\ levent' = IF gd.pc = "idle" THEN "tick" ELSE levent
    /\ UNCHANGED <<source, cache, gd>>
    /\ UNCHANGED hookvars

\* The source file is rewritten: new content, mtime of the clock.
WriteSource ==
    /\ source.version < MaxVersions
    /\ source' = [mtime |-> clock, version |-> source.version + 1]
    /\ gd' = [gd EXCEPT !.unmodified = FALSE]
    /\ levent' = IF gd.pc = "idle" THEN "modify" ELSE levent
    /\ UNCHANGED <<clock, cache>>
    /\ UNCHANGED hookvars

\* The source is modified between get_data calls.
ModifySource ==
    /\ gd.pc = "idle"
    /\ WriteSource

\* Another process modifies the source, also during a get_data call.
ModifySourceConcurrently ==
    /\ gd.pc \in {"idle", "L157", "L159"}
    /\ WriteSource

\* get_data calls run one at a time, the source changes between them.
LoaderNext ==
    \/ get_data_load
    \/ get_data_refactor
    \/ get_data_set_data
    \/ get_data_other
    \/ Tick
    \/ ModifySource

LoaderSpec == Init /\ [][LoaderNext]_vars

\* The source may change at any point of a get_data call.
RaceNext ==
    \/ get_data_load
    \/ get_data_refactor
    \/ get_data_set_data
    \/ get_data_other
    \/ Tick
    \/ ModifySourceConcurrently

RaceSpec == Init /\ [][RaceNext]_vars

----------------------------------------------------------------------------
(* Properties                                                              *)

\* The callback has just been left: by `return 0`, or by an exception.
Exited == event \in {"return", "raise"}

\* C1 as stated: every create_inputhook_qt4 call returns the (app, hook)
\* pair that the first call returned.
C1_SamePair ==
    ret.first_hook # None =>
        ret.app = ret.first_app /\ ret.hook = ret.first_hook

\* C1 amended: every call returns the hook the first call returned; the app
\* it returns is the handle given to that call or, with no handle, the
\* application instance (constructed by the call when there was none).
C1_SameHook ==
    event = "install" =>
        /\ ret.hook = ret.first_hook
        /\ ret.hook # None
        /\ ret.app # None
        /\ ret.app = IF ret.handle # None THEN ret.handle ELSE qt_instance

\* A later call has returned the first call's hook with another application.
C1_Witness ==
    /\ event = "install"
    /\ ret.hook = ret.first_hook
    /\ ret.app # ret.first_app

\* C2: an interrupt delivered while the callback processes events or waits
\* in the event loop sets the flag, clears the hook and prints the notice in
\* that invocation, which returns without an exception escaping.
C2_InterruptHandled ==
    (Exited /\ inv.kbdint_at \in GuiCalls) =>
        /\ got_kbdint
        /\ inv.cleared /\ mgr_inputhook = None
        /\ inv.notice
        /\ event = "return"

\* C3: no exception ever propagates out of the idle callback; it always
\* returns normally with status 0.
C3_NoEscape ==
    Exited => (event = "return" /\ inv.status = 0)

\* C4: when the callback returns, the timer or notifier it created is no
\* longer connected to app.quit.
C4_Disconnected ==
    event = "return" => ~connected

\* C5: a non-interrupt exception from processEvents or exec_ unregisters the
\* hook, prints the diagnostic, leaves the flag unchanged and the callback
\* returns 0.
C5_ErrorHandled ==
    (Exited /\ inv.gui_exc) =>
        /\ inv.cleared /\ mgr_inputhook = None
        /\ inv.diag
        /\ got_kbdint = inv.flag0
        /\ event = "return" /\ inv.status = 0

\* C6: once the callback has unregistered itself on an unexpected failure,
\* the hook stays unregistered until it is registered from outside.
C6_StaysUnregistered ==
    hist.unreg_error => mgr_inputhook = None

\* C7: a restoration callback that finds the flag true registers the idle
\* callback and clears the flag; one that finds it false changes neither.
C7_Restore ==
    [][event' \in {"preprompt", "preprompt_restore"} =>
          IF got_kbdint
          THEN /\ mgr_inputhook' = ip_inputhook_qt4
               /\ mgr_inputhook' # None
               /\ ~got_kbdint'
          ELSE UNCHANGED <<got_kbdint, mgr_inputhook>>]_vars

\* The restoration callback has just re-registered the hook.
C7_Witness ==
    /\ event = "preprompt_restore"
    /\ mgr_inputhook = ip_inputhook_qt4 /\ mgr_inputhook # None
    /\ ~got_kbdint

\* C8: the flag is true only if an interrupt was caught and the restoration
\* callback has not run since; it is false initially and right after every
\* restoration callback.
C8_FlagInterval ==
    /\ got_kbdint => hist.caught
    /\ event \in {"init", "preprompt", "preprompt_restore"} => ~got_kbdint

\* The flag is true at the prompt loop, between the catch and the next prompt.
C8_Witness ==
    got_kbdint /\ hist.caught /\ pc = "idle" /\ event = "return"

\* C9: under either strategy at most one wait window runs on or begins
\* after input became ready, and a callback waiting with input ready is left.
C9_OneWindow ==
    /\ [](inv.windows <= 1)
    /\ (pc \in {"L96", "L102"} /\ stdin_ready) ~> (pc = "idle")

\* Input became ready during a timer quantum and the callback has returned.
C9_Witness ==
    /\ platform = "win32"
    /\ event = "return"
    /\ inv.windows = 1
    /\ inv.kbdint_at = "none" /\ ~inv.gui_exc

\* C10: whenever the callback returns, on whichever branch, the interrupt
\* signal is enabled and the status is 0.
C10_ReturnsEnabled ==
    event = "return" => (sigint = allow_CTRL_C /\ inv.status = 0)

\* The callback has returned through the KeyboardInterrupt handler.
C10_Witness ==
    event = "return" /\ inv.notice /\ inv.cleared /\ sigint = allow_CTRL_C

\* C11: an application object is constructed only by a call given no handle
\* while no application instance exists, and then exactly one; a call with a
\* handle or with an existing instance constructs none and returns that one.
C11_OneApp ==
    [][event' = "install" =>
          /\ napps' = napps + (IF ret'.handle = None /\ qt_instance = None
                               THEN 1 ELSE 0)
          /\ ret'.created = napps' - napps
          /\ qt_instance # None =>
                 (napps' = napps /\ qt_instance' = qt_instance)
          /\ ret'.handle # None => ret'.app = ret'.handle
          /\ (ret'.handle = None /\ qt_instance # None) =>
                 ret'.app = qt_instance]_vars

\* A call with no handle and no instance has constructed the application.
C11_Witness ==
    /\ event = "install"
    /\ ret.created = 1 /\ ret.handle = None
    /\ ret.app = qt_instance /\ ret.app = napps

\* C12 as stated: when create_inputhook_qt4 returns, the idle callback is the
\* manager's registered input hook, is stored on the session, and the
\* restoration callback is the pre-prompt hook.
C12_InstallActivates ==
    event = "install" =>
        /\ mgr_inputhook = ret.hook
        /\ ip_inputhook_qt4 = ret.hook
        /\ pre_prompt_hook

\* C12 amended: create_inputhook_qt4 stores the hook on the session and
\* registers the restoration callback, and leaves the manager's registered
\* input hook as it was (unregistered on a fresh session).
C12_InstallStores ==
    [][event' = "install" =>
          /\ mgr_inputhook' = mgr_inputhook
          /\ ip_inputhook_qt4' = ret'.hook /\ ret'.hook # None
          /\ pre_prompt_hook']_vars

\* The first call has returned and no input hook is registered.
C12_Witness ==
    /\ event = "install"
    /\ ret.hook = ret.first_hook /\ ip_inputhook_qt4 = ret.hook
    /\ pre_prompt_hook
    /\ mgr_inputhook = None

\* No KeyboardInterrupt was delivered and no GUI call raised in this invocation.
Undisturbed == inv.kbdint_at = "none" /\ ~inv.gui_exc

\* C15 as stated: under either strategy a GUI quit that ends the event loop
\* returns control, as input readiness does: the callback does not wait again.
C15_QuitEndsWait ==
    inv.gui_quit => pc \notin {"L95", "L96", "L100", "L102"}

\* C15 amended: under either strategy a callback that found no input ready
\* returns undisturbed only with input ready, except that under the notifier
\* strategy alone a GUI quit ends the wait too; the polling loop starts the
\* next quantum after a GUI quit while input is not ready.
C15_ReadyEndsWait ==
    /\ (platform = "other" /\ inv.gui_quit) => pc \notin {"L100", "L102"}
    /\ (event = "return" /\ inv.checked = "notready" /\ Undisturbed) =>
           (stdin_ready \/ (platform = "other" /\ inv.gui_quit))

\* Under the notifier strategy a GUI quit has returned control without input.
C15_Witness ==
    /\ event = "return" /\ Undisturbed
    /\ platform = "other" /\ inv.gui_quit /\ ~stdin_ready

\* C16: with input ready at the check of line 89 the callback creates no
\* timer or notifier, never enters app.exec_, and returns 0 after exactly one
\* processEvents burst.
C16_ReadySkipsWait ==
    inv.checked = "ready" =>
        /\ ~inv.watch /\ ~inv.entered /\ ~connected
        /\ inv.bursts = 1
        /\ Exited => (event = "return" /\ inv.status = 0)

\* C17: an invocation with no interrupt and no exception, the early return
\* with no application included (which processes no events), leaves the flag
\* and the registration unchanged; only the two except clauses clear the hook.
C17_NoSideEffect ==
    /\ ((pc # "idle" \/ Exited) /\ Undisturbed) =>
           /\ got_kbdint = inv.flag0
           /\ mgr_inputhook = ip_inputhook_qt4 /\ mgr_inputhook # None
           /\ ~inv.cleared
           /\ qt_instance = None => (inv.bursts = 0 /\ ~inv.watch)
           /\ Exited => (event = "return" /\ inv.status = 0)
    /\ inv.cleared => (inv.kbdint_at \in Body \/ inv.gui_exc)

\* The callback has returned early, with no application and the hook registered.
C17_Witness ==
    /\ event = "return" /\ Undisturbed
    /\ qt_instance = None /\ inv.bursts = 0
    /\ mgr_inputhook # None

\* C18: while the host has control, a true flag means the idle callback is
\* not the registered input hook, so the host never invokes it with the flag
\* true.
C18_FlagMeansUnregistered ==
    /\ (pc = "idle" /\ got_kbdint) => mgr_inputhook = None
    /\ pc # "idle" => ~inv.flag0

\* The flag is true at the prompt loop and the hook is unregistered.
C18_Witness ==
    pc = "idle" /\ got_kbdint /\ mgr_inputhook = None /\ hist.activated

\* The refactored bytes of the source as it is now.
Current == Encoded(refactor_2to3(source.version))

\* C13: a cache hit happens only with an existing cache file whose mtime is
\* strictly greater than the source's, and then returns the refactoring of
\* the source's latest content; otherwise the source is refactored again.
C13_NoStaleHit ==
    /\ levent = "hit" =>
           /\ gd.seen_cache /\ gd.cmt > gd.smt
           /\ gd.data = Current
           /\ ~gd.refactored /\ ~gd.wrote
    /\ levent \in {"load_miss", "refactor", "miss"} =>
           (~gd.seen_cache \/ gd.cmt <= gd.smt)
    /\ levent = "miss" =>
           /\ gd.refactored /\ gd.wrote
           /\ gd.data = Current

\* A hit on the cache of a source that was modified and refactored again.
C13_Witness ==
    levent = "hit" /\ source.version > 1 /\ gd.data = Current

\* C14 as stated: the get_data that follows a call that missed and wrote the
\* cache, with the source unmodified in between, is a cache hit that returns
\* the same data, without refactoring and without rewriting the cache.
C14_NextIsHit ==
    (levent \in {"hit", "load_miss", "refactor", "miss"} /\ gd.follows) =>
        /\ levent = "hit"
        /\ gd.data = gd.prev_data
        /\ ~gd.refactored /\ ~gd.wrote

\* C14 amended: that call returns the same data; it is a cache hit, with no
\* refactoring and no rewrite, exactly when the cache file's mtime is
\* strictly greater than the source's, and when the two are equal it
\* refactors and rewrites the cache again.
C14_NextIsHitIfNewer ==
    gd.follows =>
        /\ gd.seen_cache /\ gd.cmt >= gd.smt
        /\ levent = "hit" =>
               /\ gd.cmt > gd.smt
               /\ gd.data = gd.prev_data
               /\ ~gd.refactored /\ ~gd.wrote
        /\ (levent \in {"hit", "load_miss", "refactor", "miss"}
               /\ gd.cmt > gd.smt) => levent = "hit"
        /\ levent = "miss" =>
               /\ gd.cmt = gd.smt
               /\ gd.data = gd.prev_data
               /\ gd.refactored /\ gd.wrote

\* The call after a miss that wrote the cache has hit it.
C14_Witness ==
    levent = "hit" /\ gd.follows /\ gd.data = gd.prev_data

\* C19: also with the source modified during a get_data call, no cache hit
\* returns the refactoring of a superseded source version.
C19_NoSupersededHit ==
    levent = "hit" => gd.data = Current

====
